---- MODULE Spec2Model ----
(***************************************************************************)
(* Model of the two-hop service chain of k8s-observability-stack:          *)
(*   api-gateway  (services/api-gateway/main.py,  GET /user/{user_id})     *)
(*   user-service (services/user-service/main.py,                          *)
(*                 GET /internal/user/{user_id})                           *)
(* The state is the set of spans recorded by both processes, the two       *)
(* counters, the HTTP exchange between the two services and the position   *)
(* of every request in its handler.  The gateway handler has one           *)
(* suspension point (await client.get), so it is two steps; the lookup     *)
(* handler has none, so it is one step.                                    *)
(***************************************************************************)
EXTENDS Integers, Sequences, FiniteSets, TLC

(* Number of overlapping gateway requests. *)
NumReq == 2

Reqs == 1..NumReq

(***************************************************************************)
(* Subject ids are character sequences, as they arrive in the decoded path *)
(* parameter of GET /user/{user_id}.  The path converter accepts any       *)
(* non-empty segment without "/", so "?" and "#" can be part of an id.     *)
(***************************************************************************)
Id123 == <<"1", "2", "3">>
Id456 == <<"4", "5", "6">>
Id999 == <<"9", "9", "9">>
Id123Query == <<"1", "2", "3", "?", "x">>
IdQueryOnly == <<"?", "x">>

UserIds == {Id123, Id456, Id999, Id123Query, IdQueryOnly}

(* user-service/main.py FAKE_DB *)
FAKE_DB ==
    (Id123 :> [id |-> "123", username |-> "otelfan", email |-> "otel@example.com"])
    @@ (Id456 :> [id |-> "456", username |-> "tracing_rocks", email |-> "trace@example.com"])

(* FAKE_DB.get(user_id): None for a missing key *)
NoUser == [none |-> TRUE]
DbGet(user_id) == IF user_id \in DOMAIN FAKE_DB THEN FAKE_DB[user_id] ELSE NoUser

(***************************************************************************)
(* Spans.  The SDK draws trace and span ids at random; all the model needs  *)
(* is that they are distinct, so request r takes its span ids from a block *)
(* of its own (SpanId) and its trace id is r.  parent_span_id 0 is the     *)
(* invalid id carried by a root span.                                      *)
(***************************************************************************)
INVALID_SPAN_ID == 0

(* k = 1: gateway server span, 2: get_user_handler, 3: outbound call,
   4: lookup server span, 5: find_user_in_db *)
SpanId(r, k) == 5 * (r - 1) + k

NewTraceId(r) == r

(* the trace id the lookup service draws when it has to start a new trace *)
NewLookupTraceId(r) == NumReq + r

NoSpans == [i \in {} |-> TRUE]

NoAttrs == [k \in {} |-> TRUE]

(* tracer.start_as_current_span(name): a child of the current context *)
StartSpan(name, service, req, trace_id, span_id, parent_span_id) ==
    [name |-> name, service |-> service, req |-> req,
     trace_id |-> trace_id, span_id |-> span_id,
     parent_span_id |-> parent_span_id,
     attrs |-> NoAttrs, status |-> "Unset",
     start_calls |-> 1, end_calls |-> 0]

(* span.set_attribute(key, value): last write for a key wins *)
SetAttribute(span, key, value) ==
    [span EXCEPT !.attrs = (key :> value) @@ span.attrs]

SetAttributes(span, attrs) ==
    [span EXCEPT !.attrs = attrs @@ span.attrs]

HasAttr(span, key) == key \in DOMAIN span.attrs

SetStatus(span, status) == [span EXCEPT !.status = status]

EndSpan(span) == [span EXCEPT !.end_calls = span.end_calls + 1]

(* Variant that ends the span only when the block is left normally, so a
   span is leaked on the raise path. *)
ExitSpanScopeLeakOnRaise(span, raised) ==
    IF raised THEN SetStatus(span, "Error") ELSE EndSpan(span)

(* Exit of "with tracer.start_as_current_span(...) as span": an exception
   that leaves the block sets status Error; the span is ended on every exit. *)
ExitSpanScope(span, raised) ==
    EndSpan(IF raised THEN SetStatus(span, "Error") ELSE span)

(***************************************************************************)
(* Trace-context propagation done by the auto-instrumentation.             *)
(***************************************************************************)
(* Variant that writes the invalid trace id into the header. *)
InjectNoTrace(trace_id, span_id) == <<"00", 0, span_id, "01">>

(* HTTPXClientInstrumentor: traceparent = version-trace_id-span_id-flags *)
Inject(trace_id, span_id) == <<"00", trace_id, span_id, "01">>

(* FastAPIInstrumentor: a missing or invalid header degrades to a new trace *)
ValidTraceparent(header) ==
    /\ Len(header) = 4
    /\ header[1] = "00"
    /\ header[2] # 0
    /\ header[3] # INVALID_SPAN_ID

Extract(header, fresh_trace_id) ==
    IF ValidTraceparent(header)
    THEN [trace_id |-> header[2], parent_span_id |-> header[3]]
    ELSE [trace_id |-> fresh_trace_id, parent_span_id |-> INVALID_SPAN_ID]

(***************************************************************************)
(* The outbound URL f"{user_service_url}/internal/user/{user_id}" as the   *)
(* client parses it: the path ends at the first "?" or "#".                *)
(***************************************************************************)
RECURSIVE PathEnd(_, _)
PathEnd(s, i) ==
    IF i > Len(s) THEN Len(s)
    ELSE IF s[i] \in {"?", "#"} THEN i - 1
    ELSE PathEnd(s, i + 1)

(* the {user_id} segment the lookup service sees for a gateway user_id *)
TargetSegment(user_id) == SubSeq(user_id, 1, PathEnd(user_id, 1))

(***************************************************************************)
(* JSON body of a response: the encoder writes the members in order, the   *)
(* decoder builds an object from them (last member of a name wins).        *)
(***************************************************************************)
JsonEncodeUser(user) ==
    [fmt |-> "json",
     members |-> << <<"id", user.id>>, <<"username", user.username>>,
                    <<"email", user.email>> >>]

JsonEncodeDetail(detail) ==
    [fmt |-> "json", members |-> << <<"detail", detail>> >>]

NotJson == [fmt |-> "html", members |-> <<>>]

RECURSIVE LastMember(_, _, _)
LastMember(members, name, i) ==
    IF members[i][1] = name THEN members[i][2]
    ELSE LastMember(members, name, i - 1)

(* Variant that loses the last member of the object. *)
JsonDecodeDropLast(text) ==
    LET m == SubSeq(text.members, 1, Len(text.members) - 1)
    IN [name \in {m[i][1] : i \in 1..Len(m)} |-> LastMember(m, name, Len(m))]

(* response.json() *)
JsonDecode(text) ==
    LET m == text.members
    IN [name \in {m[i][1] : i \in 1..Len(m)} |-> LastMember(m, name, Len(m))]

(***************************************************************************)
(* Counters: one value per attribute-tag combination.                      *)
(***************************************************************************)
(* Variant that overwrites the value instead of accumulating. *)
CounterAddLossy(counter, delta, tag) ==
    [counter EXCEPT ![tag] = delta]

(* counter.add(delta, {tag}) *)
CounterAdd(counter, delta, tag) ==
    [counter EXCEPT ![tag] = @ + delta]

RECURSIVE SumOver(_, _)
SumOver(counter, tags) ==
    IF tags = {} THEN 0
    ELSE LET t == CHOOSE x \in tags : TRUE
         IN counter[t] + SumOver(counter, tags \ {t})

CounterSum(counter) == SumOver(counter, DOMAIN counter)

VARIABLES
    spans,              \* every span started by either process, by span id
    api_user_requests,  \* gateway counter, by tag user.id.path
    db_user_lookups,    \* lookup-service counter, by tag user.found
    gw,                 \* gateway request r: position, operand, result
    lk,                 \* lookup-service request made by gateway request r
    net                 \* the outbound call of gateway request r

vars == <<spans, api_user_requests, db_user_lookups, gw, lk, net>>

NoResult == [pending |-> TRUE]

Init ==
    /\ spans = NoSpans
    /\ api_user_requests = [t \in UserIds |-> 0]
    /\ db_user_lookups = [t \in {"true", "false"} |-> 0]
    /\ gw = [r \in Reqs |->
               [pc |-> "idle", user_id |-> <<>>, server_span |-> 0,
                span |-> 0, client_span |-> 0, call |-> [kind |-> "none"],
                exit |-> "none", result |-> NoResult]]
    /\ lk = [r \in Reqs |->
               [pc |-> "idle", user_id |-> <<>>, server_span |-> 0,
                span |-> 0, exit |-> "none", status |-> 0, text |-> NotJson]]
    /\ net = [r \in Reqs |-> [state |-> "none"]]

(***************************************************************************)
(* api-gateway: get_user                                                   *)
(***************************************************************************)
(* Variant in which the outbound call has no timeout. *)
ClientTimeoutDisabled == FALSE

(* AsyncClient() is built without a timeout argument, so the client's
   default timeout applies to the outbound call. *)
ClientTimeoutEnabled == TRUE

InternalError == [error |-> "Internal server error"]

StatusError(code) == [error |-> "Failed to retrieve user data", status |-> code]

(* Variant without the catch-all branch: a transport or decode failure
   leaves the handler as an exception. *)
GetUserOutcomeNoCatchAll(call) ==
    IF call.kind # "response"
    THEN [attrs |-> NoAttrs, exit |-> "raise", result |-> NoResult]
    ELSE IF call.status >= 400
    THEN [attrs |-> ("http.status_code" :> call.status),
          exit |-> "return", result |-> StatusError(call.status)]
    ELSE IF call.text.fmt # "json"
    THEN [attrs |-> NoAttrs, exit |-> "raise", result |-> NoResult]
    ELSE [attrs |-> ("http.status_code" :> call.status),
          exit |-> "return", result |-> JsonDecode(call.text)]

(* The try/except of get_user applied to the outcome of the outbound call:
   the attributes it sets on the handler span, how the handler is left and
   what it returns. *)
GetUserOutcome(call) ==
    IF call.kind # "response"
    THEN \* client.get raised: except Exception
         [attrs |-> ("error" :> TRUE), exit |-> "return", result |-> InternalError]
    ELSE IF call.status >= 400
    THEN \* raise_for_status raised: except httpx.HTTPStatusError
         [attrs |-> ("http.status_code" :> call.status),
          exit |-> "return", result |-> StatusError(call.status)]
    ELSE IF call.text.fmt # "json"
    THEN \* response.json() raised: except Exception
         [attrs |-> ("error" :> TRUE), exit |-> "return", result |-> InternalError]
    ELSE [attrs |-> ("http.status_code" :> call.status),
          exit |-> "return", result |-> JsonDecode(call.text)]

(* Request received up to the suspension at "await client.get(...)". *)
GatewayReceive(r, user_id) ==
    /\ gw[r].pc = "idle"
    /\ LET trace_id == NewTraceId(r)
           server == StartSpan("GET /user/{user_id}", "api-gateway", r,
                               trace_id, SpanId(r, 1), INVALID_SPAN_ID)
           handler == StartSpan("get_user_handler", "api-gateway", r,
                                trace_id, SpanId(r, 2), SpanId(r, 1))
           client == StartSpan("GET", "api-gateway", r, trace_id,
                               SpanId(r, 3), SpanId(r, 2))
       IN /\ api_user_requests' = CounterAdd(api_user_requests, 1, user_id)
          /\ spans' = (SpanId(r, 1) :> server)
                       @@ (SpanId(r, 2) :> SetAttribute(handler, "user.id", user_id))
                       @@ (SpanId(r, 3) :> client) @@ spans
          /\ gw' = [gw EXCEPT ![r] = [@ EXCEPT !.pc = "awaiting",
                                               !.user_id = user_id,
                                               !.server_span = SpanId(r, 1),
                                               !.span = SpanId(r, 2),
                                               !.client_span = SpanId(r, 3)]]
          /\ net' = [net EXCEPT ![r] =
                        [state |-> "request",
                         traceparent |-> Inject(trace_id, SpanId(r, 3)),
                         segment |-> TargetSegment(user_id)]]
    /\ UNCHANGED <<db_user_lookups, lk>>

(* The rest of get_user once the outbound call has an outcome. *)
FinishGetUser(r, call) ==
    LET out == GetUserOutcome(call)
        failed == call.kind # "response" \/ call.status >= 400
        client == EndSpan(IF failed THEN SetStatus(spans[gw[r].client_span], "Error")
                          ELSE spans[gw[r].client_span])
        handler == ExitSpanScope(SetAttributes(spans[gw[r].span], out.attrs),
                                 out.exit = "raise")
        server == EndSpan(IF out.exit = "raise"
                          THEN SetStatus(spans[gw[r].server_span], "Error")
                          ELSE spans[gw[r].server_span])
    IN /\ spans' = [spans EXCEPT ![gw[r].client_span] = client,
                                 ![gw[r].span] = handler,
                                 ![gw[r].server_span] = server]
       /\ gw' = [gw EXCEPT ![r] = [@ EXCEPT !.pc = "done",
                                            !.call = call,
                                            !.exit = out.exit,
                                            !.result = out.result]]
       /\ net' = [net EXCEPT ![r] = [@ EXCEPT !.state = "closed"]]
       /\ UNCHANGED <<api_user_requests, db_user_lookups, lk>>

(* The outbound call completed with a response or failed to connect. *)
GatewayComplete(r) ==
    /\ gw[r].pc = "awaiting"
    /\ net[r].state \in {"response", "refused"}
    /\ FinishGetUser(r, IF net[r].state = "response"
                        THEN [kind |-> "response", status |-> net[r].status,
                              text |-> net[r].text]
                        ELSE [kind |-> "connect_error"])

(* The downstream service never answers: the client's timeout fires. *)
GatewayTimeout(r) ==
    /\ gw[r].pc = "awaiting"
    /\ net[r].state = "hung"
    /\ ClientTimeoutEnabled
    /\ FinishGetUser(r, [kind |-> "timeout"])

(***************************************************************************)
(* user-service: get_user_internal                                         *)
(***************************************************************************)
(* Variant with the two values of the user.found tag exchanged. *)
GetUserInternalOutcomeSwappedTag(user_id) ==
    LET user == DbGet(user_id)
    IN IF user = NoUser
       THEN [tag |-> "true",
             attrs |-> ("user.found" :> FALSE) @@ ("error" :> TRUE)
                       @@ ("user.id" :> user_id),
             exit |-> "raise", status |-> 404,
             text |-> JsonEncodeDetail("User not found")]
       ELSE [tag |-> "false",
             attrs |-> ("user.username" :> user.username) @@ ("user.found" :> TRUE)
                       @@ ("user.id" :> user_id),
             exit |-> "return", status |-> 200,
             text |-> JsonEncodeUser(user)]

(* The body of get_user_internal: the counter tag it increments, the
   attributes it sets, how the handler is left and the response. *)
GetUserInternalOutcome(user_id) ==
    LET user == DbGet(user_id)
    IN IF user = NoUser
       THEN [tag |-> "false",
             attrs |-> ("user.found" :> FALSE) @@ ("error" :> TRUE)
                       @@ ("user.id" :> user_id),
             exit |-> "raise", status |-> 404,
             text |-> JsonEncodeDetail("User not found")]
       ELSE [tag |-> "true",
             attrs |-> ("user.username" :> user.username) @@ ("user.found" :> TRUE)
                       @@ ("user.id" :> user_id),
             exit |-> "return", status |-> 200,
             text |-> JsonEncodeUser(user)]

(* The lookup service handles the call of gateway request r. *)
LookupHandle(r) ==
    /\ net[r].state = "request"
    /\ net[r].segment # <<>>
    /\ LET ctx == Extract(net[r].traceparent, NewLookupTraceId(r))
           out == GetUserInternalOutcome(net[r].segment)
           server == EndSpan(StartSpan("GET /internal/user/{user_id}", "user-service",
                                       r, ctx.trace_id, SpanId(r, 4),
                                       ctx.parent_span_id))
           handler == ExitSpanScope(
                          SetAttributes(StartSpan("find_user_in_db", "user-service", r,
                                                  ctx.trace_id, SpanId(r, 5),
                                                  SpanId(r, 4)),
                                        out.attrs),
                          out.exit = "raise")
       IN /\ db_user_lookups' = CounterAdd(db_user_lookups, 1, out.tag)
          /\ spans' = (SpanId(r, 4) :> server) @@ (SpanId(r, 5) :> handler) @@ spans
          /\ lk' = [lk EXCEPT ![r] = [pc |-> "done", user_id |-> net[r].segment,
                                      server_span |-> SpanId(r, 4),
                                      span |-> SpanId(r, 5),
                                      exit |-> out.exit, status |-> out.status,
                                      text |-> out.text]]
          /\ net' = [net EXCEPT ![r] = [state |-> "response", status |-> out.status,
                                        text |-> out.text]]
    /\ UNCHANGED <<api_user_requests, gw>>

(* An empty {user_id} segment matches no route: the framework answers 404
   and get_user_internal is not called. *)
LookupNoRoute(r) ==
    /\ net[r].state = "request"
    /\ net[r].segment = <<>>
    /\ LET ctx == Extract(net[r].traceparent, NewLookupTraceId(r))
           server == EndSpan(StartSpan("GET", "user-service", r, ctx.trace_id,
                                       SpanId(r, 4), ctx.parent_span_id))
       IN /\ spans' = (SpanId(r, 4) :> server) @@ spans
          /\ lk' = [lk EXCEPT ![r] = [@ EXCEPT !.pc = "no_route",
                                               !.server_span = SpanId(r, 4),
                                               !.status = 404,
                                               !.text = JsonEncodeDetail("Not Found")]]
          /\ net' = [net EXCEPT ![r] = [state |-> "response", status |-> 404,
                                        text |-> JsonEncodeDetail("Not Found")]]
    /\ UNCHANGED <<api_user_requests, db_user_lookups, gw>>

(***************************************************************************)
(* The network and whatever else may stand at USER_SERVICE_URL.            *)
(***************************************************************************)
(* The call cannot connect, or is accepted and never answered. *)
NetFail(r, how) ==
    /\ net[r].state = "request"
    /\ net' = [net EXCEPT ![r] = [state |-> how]]
    /\ UNCHANGED <<spans, api_user_requests, db_user_lookups, gw, lk>>

(* Something other than the lookup service answers: a server error, or a
   success status with a body that is not JSON. *)
ProxyRespond(r, status) ==
    /\ net[r].state = "request"
    /\ net' = [net EXCEPT ![r] = [state |-> "response", status |-> status,
                                  text |-> NotJson]]
    /\ UNCHANGED <<spans, api_user_requests, db_user_lookups, gw, lk>>

Next ==
    \/ \E r \in Reqs, user_id \in UserIds : GatewayReceive(r, user_id)
    \/ \E r \in Reqs : GatewayComplete(r)
    \/ \E r \in Reqs : GatewayTimeout(r)
    \/ \E r \in Reqs : LookupHandle(r)
    \/ \E r \in Reqs : LookupNoRoute(r)
    \/ \E r \in Reqs, how \in {"refused", "hung"} : NetFail(r, how)
    \/ \E r \in Reqs, status \in {200, 503} : ProxyRespond(r, status)

Spec == Init /\ [][Next]_vars

(* The client's timer runs independently of the downstream service. *)
FairSpec == Spec /\ \A r \in Reqs : WF_vars(GatewayTimeout(r))

TypeOK ==
    /\ \A r \in Reqs : gw[r].pc \in {"idle", "awaiting", "done"}
    /\ \A r \in Reqs : lk[r].pc \in {"idle", "no_route", "done"}
    /\ \A i \in DOMAIN spans : spans[i].span_id = i

(***************************************************************************)
(* Properties                                                              *)
(***************************************************************************)
GwSpan(r) == spans[gw[r].span]

LkSpan(r) == spans[lk[r].span]

SpansNamed(name, r) ==
    {i \in DOMAIN spans : spans[i].name = name /\ spans[i].req = r}

(* the outbound call of r was answered by the lookup service *)
AnsweredByLookup(r) == gw[r].pc = "done" /\ lk[r].pc # "idle"

(* C1: every request of get_user and of get_user_internal opens exactly one
   handler span and ends that span exactly once, whatever the outcome: a
   finished request has its span ended once, and no span is ended twice. *)
C1_OneSpanEndedOnce ==
    \A r \in Reqs :
        /\ Cardinality(SpansNamed("get_user_handler", r))
               = (IF gw[r].pc = "idle" THEN 0 ELSE 1)
        /\ \A i \in SpansNamed("get_user_handler", r) :
               /\ i = gw[r].span
               /\ spans[i].start_calls = 1
               /\ spans[i].end_calls = (IF gw[r].pc = "done" THEN 1 ELSE 0)
        /\ Cardinality(SpansNamed("find_user_in_db", r))
               = (IF lk[r].pc = "done" THEN 1 ELSE 0)
        /\ \A i \in SpansNamed("find_user_in_db", r) :
               /\ i = lk[r].span
               /\ spans[i].start_calls = 1
               /\ spans[i].end_calls = 1

C1_Witness ==
    \E r, q \in Reqs :
        /\ lk[r].pc = "done" /\ lk[r].exit = "raise" /\ LkSpan(r).end_calls = 1
        /\ gw[r].pc = "done" /\ gw[r].call.kind = "response"
        /\ gw[q].pc = "done" /\ gw[q].call.kind = "connect_error"
        /\ GwSpan(q).end_calls = 1

(* C2 as stated: the lookup handler span has the trace id of the gateway
   handler span, and its parent_span_id is the gateway handler span's id. *)
C2_DirectParent ==
    \A r \in Reqs :
        lk[r].pc = "done" =>
            /\ LkSpan(r).trace_id = GwSpan(r).trace_id
            /\ LkSpan(r).parent_span_id = GwSpan(r).span_id

(* C2 amended: the lookup handler span has the trace id of the gateway
   handler span and descends from it: its parent is the lookup service's
   server span, whose parent is the span of the gateway's outbound call,
   whose parent is the gateway handler span. *)
C2_SameTraceAncestor ==
    \A r \in Reqs :
        lk[r].pc = "done" =>
            /\ LkSpan(r).trace_id = GwSpan(r).trace_id
            /\ LkSpan(r).parent_span_id = lk[r].server_span
            /\ spans[lk[r].server_span].trace_id = GwSpan(r).trace_id
            /\ spans[lk[r].server_span].parent_span_id = gw[r].client_span
            /\ spans[gw[r].client_span].parent_span_id = GwSpan(r).span_id

C2_Witness ==
    \E r, q \in Reqs :
        /\ r # q
        /\ lk[r].pc = "done" /\ lk[q].pc = "done"
        /\ LkSpan(r).trace_id = GwSpan(r).trace_id
        /\ LkSpan(r).trace_id # LkSpan(q).trace_id

(* C3: for every subject id that is not in FAKE_DB, the lookup handler span
   ends with error = true and user.found = false, and the gateway, once it
   has the lookup service's answer, returns the 404 payload. *)
C3_NotFound ==
    \A r \in Reqs :
        (gw[r].pc # "idle" /\ gw[r].user_id \notin DOMAIN FAKE_DB) =>
            /\ lk[r].pc = "done" =>
                   /\ HasAttr(LkSpan(r), "error") /\ LkSpan(r).attrs["error"] = TRUE
                   /\ HasAttr(LkSpan(r), "user.found")
                   /\ LkSpan(r).attrs["user.found"] = FALSE
            /\ AnsweredByLookup(r) => gw[r].result = StatusError(404)

(* C4: when the outbound call returns a 4xx/5xx status, the gateway handler
   span ends with error = true, the status code as an attribute and status
   Error, and the gateway returns the failure result with that code. *)
C4_StatusError ==
    \A r \in Reqs :
        (gw[r].pc = "done" /\ gw[r].call.kind = "response" /\ gw[r].call.status >= 400) =>
            /\ gw[r].result = StatusError(gw[r].call.status)
            /\ GwSpan(r).end_calls = 1
            /\ HasAttr(GwSpan(r), "http.status_code")
            /\ GwSpan(r).attrs["http.status_code"] = gw[r].call.status
            /\ HasAttr(GwSpan(r), "error") /\ GwSpan(r).attrs["error"] = TRUE
            /\ GwSpan(r).status = "Error"

TransportFailure(call) ==
    \/ call.kind \in {"connect_error", "timeout"}
    \/ call.kind = "response" /\ call.status < 400 /\ call.text.fmt # "json"

(* C5: when the outbound call cannot complete (connection failure, timeout,
   undecodable response), the gateway handler span ends with error = true,
   no status code attribute and status Error, and the gateway returns the
   internal-error payload. *)
C5_TransportFailure ==
    \A r \in Reqs :
        (gw[r].pc = "done" /\ TransportFailure(gw[r].call)) =>
            /\ gw[r].result = InternalError
            /\ GwSpan(r).end_calls = 1
            /\ HasAttr(GwSpan(r), "error") /\ GwSpan(r).attrs["error"] = TRUE
            /\ ~HasAttr(GwSpan(r), "http.status_code")
            /\ GwSpan(r).status = "Error"

C7_CountersByTag ==
    [][\A r \in Reqs :
          /\ (gw[r].pc = "idle" /\ gw'[r].pc = "awaiting"
                  /\ gw'[r].user_id \in DOMAIN FAKE_DB) =>
                 /\ api_user_requests' =
                        [api_user_requests EXCEPT ![gw'[r].user_id] = @ + 1]
                 /\ db_user_lookups' = db_user_lookups
          /\ (lk[r].pc = "idle" /\ lk'[r].pc = "done"
                  /\ gw[r].user_id \in DOMAIN FAKE_DB) =>
                 /\ db_user_lookups' = [db_user_lookups EXCEPT !["true"] = @ + 1]
                 /\ api_user_requests' = api_user_requests
          /\ (gw[r].pc = "awaiting" /\ gw'[r].pc = "done") =>
                 /\ api_user_requests' = api_user_requests
                 /\ db_user_lookups' = db_user_lookups]_vars

C7_Witness ==
    \E r, q \in Reqs :
        /\ r # q
        /\ gw[r].pc = "done" /\ gw[q].pc = "done"
        /\ gw[r].user_id = Id123 /\ gw[q].user_id = Id123
        /\ gw[r].result = FAKE_DB[Id123] /\ gw[q].result = FAKE_DB[Id123]
        /\ api_user_requests[Id123] = 2
        /\ db_user_lookups["true"] = 2

(* C8: if the downstream service never answers the outbound call, the
   gateway request still finishes: it returns the internal-error payload
   and its handler span is ended with error = true. *)
C8_HungCallTimesOut ==
    \A r \in Reqs :
        (net[r].state = "hung") ~>
            (/\ gw[r].pc = "done"
             /\ gw[r].result = InternalError
             /\ GwSpan(r).end_calls = 1
             /\ HasAttr(GwSpan(r), "error") /\ GwSpan(r).attrs["error"] = TRUE)

C8_Witness ==
    \E r \in Reqs :
        /\ gw[r].pc = "done" /\ gw[r].call.kind = "timeout"
        /\ gw[r].result = InternalError
        /\ GwSpan(r).end_calls = 1

Received == {r \in Reqs : gw[r].pc # "idle"}

LookedUp == {r \in Reqs : lk[r].pc = "done"}

(* C9: under every interleaving of the requests no increment is lost and no
   counter value decreases: the sum of api.user.requests over its tags is
   the number of gateway requests received (N once N requests have
   completed and none is in flight), and the sum of db.user.lookups is the
   number of requests get_user_internal has handled. *)
C9_CountersLossless ==
    /\ [](/\ CounterSum(api_user_requests) = Cardinality(Received)
          /\ CounterSum(db_user_lookups) = Cardinality(LookedUp))
    /\ [][/\ \A t \in DOMAIN api_user_requests :
                 api_user_requests'[t] >= api_user_requests[t]
          /\ \A t \in DOMAIN db_user_lookups :
                 db_user_lookups'[t] >= db_user_lookups[t]]_vars

C9_Witness ==
    /\ \A r \in Reqs : gw[r].pc = "done" /\ lk[r].pc = "done"
    /\ \E t \in DOMAIN api_user_requests : api_user_requests[t] = NumReq
    /\ \E t \in DOMAIN db_user_lookups : db_user_lookups[t] = NumReq

(* C10 as stated: a request for a known subject id that the lookup service
   answers returns exactly the stored record, and the gateway handler span
   ends with the downstream success code as attribute and status Ok. *)
C10_RecordAndStatusOk ==
    \A r \in Reqs :
        (AnsweredByLookup(r) /\ gw[r].user_id \in DOMAIN FAKE_DB) =>
            /\ gw[r].result = FAKE_DB[gw[r].user_id]
            /\ GwSpan(r).end_calls = 1
            /\ HasAttr(GwSpan(r), "http.status_code")
            /\ GwSpan(r).attrs["http.status_code"] = 200
            /\ GwSpan(r).status = "Ok"

(* C10 amended: a request for a known subject id that the lookup service
   answers returns exactly the stored record, and the gateway handler span
   ends with the downstream success code as attribute, without an error
   attribute, and with its status left Unset. *)
C10_RecordAndStatusUnset ==
    \A r \in Reqs :
        (AnsweredByLookup(r) /\ gw[r].user_id \in DOMAIN FAKE_DB) =>
            /\ gw[r].result = FAKE_DB[gw[r].user_id]
            /\ GwSpan(r).end_calls = 1
            /\ HasAttr(GwSpan(r), "http.status_code")
            /\ GwSpan(r).attrs["http.status_code"] = 200
            /\ ~HasAttr(GwSpan(r), "error")
            /\ GwSpan(r).status = "Unset"

C10_Witness ==
    \E r \in Reqs :
        /\ AnsweredByLookup(r) /\ gw[r].user_id = Id123
        /\ gw[r].result = [id |-> "123", username |-> "otelfan",
                           email |-> "otel@example.com"]
====
